---- MODULE Spec2Model ----
(***************************************************************************)
(* SimpleVector<Type> over ArrayPtr<Type>, with Type = int and with Type a *)
(* class type (std::string).                                               *)
(*                                                                         *)
(* The free store is modelled explicitly: every `new Type[n]{}` takes a    *)
(* block of n value-initialised cells, every `delete[]` gives it back, and *)
(* a SimpleVector is the triple (items_, size_, capacity_) where items_ is *)
(* the raw pointer held by its ArrayPtr.  Buffer positions are 0-based as  *)
(* in the source; cell k of a block is element k+1 of its sequence.        *)
(***************************************************************************)
EXTENDS Integers, Sequences, FiniteSets, TLC

\* Bounds of the model.
MaxVal == 1        \* element values are 0..MaxVal
MaxCount == 4      \* sizes, capacities and indices a caller passes are 0..MaxCount
HeapCells == 6     \* cells of the free store of a program with one vector
PairCells == 3     \* cells of the free store of a program with two vectors

\* Program constants.
NULL == 0          \* nullptr
DefaultValue == 0  \* Type{}: 0 for int, the empty string for std::string

Insts == {"a", "b"}
Values == 0..MaxVal
\* Block addresses: a program never holds more blocks at once than one per
\* object plus the one a running operation has allocated.
NumAddrs == Cardinality(Insts) + 1
Addrs == 1..NumAddrs
Counts == 0..MaxCount

\* vec[i]       : the SimpleVector object i (constructed or not) and its
\*                members items_ (the ArrayPtr's raw pointer), size_, capacity_
\* heap         : the free store
\* world        : the program at hand: the objects it declares (objs), the
\*                number of cells its free store has (cells) and the
\*                element type Type it instantiates the template with (elem)
\* terminated   : std::terminate has been called
\* lastOp       : the call that has just returned to the client, with what it
\*                returned or threw; op = "none" once the client has taken
\*                the result and is about to make its next call
VARIABLES vec, heap, world, terminated, lastOp

vars == <<vec, heap, world, terminated, lastOp>>

Min(x, y) == IF x < y THEN x ELSE y
StdMax(x, y) == IF x < y THEN y ELSE x

(***************************************************************************)
(* The free store.  heap.block[p] is the block at address p; heap.doubleFree *)
(* records that delete[] was applied to an address that holds no block.    *)
(***************************************************************************)
FreeBlock == [live |-> FALSE, cells |-> <<>>]

EmptyHeap == [block |-> [p \in Addrs |-> FreeBlock], doubleFree |-> FALSE]

RECURSIVE CellsUpTo(_, _)
CellsUpTo(h, p) == IF p = 0 THEN 0 ELSE Len(h.block[p].cells) + CellsUpTo(h, p - 1)

CellsInUse(h) == CellsUpTo(h, NumAddrs)

FreeAddrs(h) == {p \in Addrs : ~h.block[p].live}

\* operator new[] succeeds (otherwise it throws std::bad_alloc before the
\* caller has changed anything).
CanAlloc(h, n) ==
    n = 0 \/ (FreeAddrs(h) # {} /\ CellsInUse(h) + n <= world.cells)

\* new Type[n]{} : n value-initialised cells at a free address.
NewArray(h, n) ==
    LET p == CHOOSE q \in FreeAddrs(h) : \A r \in FreeAddrs(h) : q <= r
    IN [h |-> [h EXCEPT !.block[p] =
                   [live |-> TRUE, cells |-> [k \in 1..n |-> DefaultValue]]],
        p |-> p]

\* delete[] p
DeleteArray(h, p) ==
    IF p = NULL THEN h
    ELSE IF h.block[p].live THEN [h EXCEPT !.block[p] = FreeBlock]
    ELSE [h EXCEPT !.doubleFree = TRUE]

Cell(h, p, k) == h.block[p].cells[k + 1]

SetCell(h, p, k, v) == [h EXCEPT !.block[p].cells[k + 1] = v]

(***************************************************************************)
(* ArrayPtr<Type>.  An ArrayPtr is its _rawPtr.                            *)
(***************************************************************************)
\* explicit ArrayPtr(size_t size)
ArrayPtrSized(h, n) == IF n # 0 THEN NewArray(h, n) ELSE [h |-> h, p |-> NULL]

\* Fault: a move constructor that leaves the pointer in `other` as well.
ArrayPtrMoveCtorShares(other) == <<other, other>>

\* ArrayPtr(ArrayPtr&& other): <<this, other>> afterwards.
ArrayPtrMoveCtor(other) == <<other, NULL>>

\* ArrayPtr& operator=(ArrayPtr&& other): <<this, other>> afterwards.
ArrayPtrMoveAssign(this, other) == <<other, this>>

\* ~ArrayPtr()
ArrayPtrDtor(h, p) == DeleteArray(h, p)

\* Type* Release(): <<returned pointer, this>> afterwards.
ArrayPtrRelease(this) == <<this, NULL>>

\* void swap(ArrayPtr& other): <<this, other>> afterwards.
ArrayPtrSwap(this, other) == <<other, this>>

(***************************************************************************)
(* <algorithm> on cells.  A range is (block address, first, last);         *)
(* source and destination may be the same block, so the order of the       *)
(* element assignments is the one the algorithm prescribes.                *)
(***************************************************************************)
RECURSIVE StdCopy(_, _, _, _, _, _)
\* std::copy(src+first, src+last, dst+d): ascending.
StdCopy(h, src, first, last, dst, d) ==
    IF first >= last THEN h
    ELSE StdCopy(SetCell(h, dst, d, Cell(h, src, first)),
                 src, first + 1, last, dst, d + 1)

\* Fault: the range is copied to the same place, but ascending.
StdCopyForward(h, src, first, last, dst, dlast) ==
    StdCopy(h, src, first, last, dst, dlast - (last - first))

RECURSIVE StdCopyBackward(_, _, _, _, _, _)
\* std::copy_backward(src+first, src+last, dst+dlast): descending.
StdCopyBackward(h, src, first, last, dst, dlast) ==
    IF first >= last THEN h
    ELSE StdCopyBackward(SetCell(h, dst, dlast - 1, Cell(h, src, last - 1)),
                         src, first, last - 1, dst, dlast - 1)

\* What a move assignment `*d = std::move(*s)` leaves in *s: an int keeps
\* its value; an object of a class type such as std::string is left empty,
\* which is Type{}.
MovedFrom(x) == IF world.elem = "int" THEN x ELSE DefaultValue

RECURSIVE StdMove(_, _, _, _, _, _)
\* std::move(src+first, src+last, dst+d): ascending.
StdMove(h, src, first, last, dst, d) ==
    IF first >= last THEN h
    ELSE LET x == Cell(h, src, first)
             h1 == SetCell(h, src, first, MovedFrom(x))
         IN StdMove(SetCell(h1, dst, d, x), src, first + 1, last, dst, d + 1)

RECURSIVE StdMoveBackward(_, _, _, _, _, _)
\* std::move_backward(src+first, src+last, dst+dlast): descending.
StdMoveBackward(h, src, first, last, dst, dlast) ==
    IF first >= last THEN h
    ELSE LET x == Cell(h, src, last - 1)
             h1 == SetCell(h, src, last - 1, MovedFrom(x))
         IN StdMoveBackward(SetCell(h1, dst, dlast - 1, x),
                            src, first, last - 1, dst, dlast - 1)

RECURSIVE StdFill(_, _, _, _, _)
\* std::fill(p+first, p+last, value)
StdFill(h, p, first, last, value) ==
    IF first >= last THEN h
    ELSE StdFill(SetCell(h, p, first, value), p, first + 1, last, value)

(***************************************************************************)
(* SimpleVector<Type>.  A vector object is [items_, size_, capacity_]      *)
(* (plus the flag `alive`: constructed and not yet destroyed).  Operations *)
(* on one object take the heap and the object and return both; operations  *)
(* on two objects take the store of all objects and the two identities, so *)
(* that `this` and the argument may be the same object.                    *)
(***************************************************************************)
Obj(p, n, c) == [alive |-> TRUE, items_ |-> p, size_ |-> n, capacity_ |-> c]

NoObj == [alive |-> FALSE, items_ |-> NULL, size_ |-> 0, capacity_ |-> 0]

\* A `const Type&` or `Type&&` argument: a temporary holding val (p = NULL),
\* or cell k of the block at p.
TempRef(x) == [p |-> NULL, k |-> 0, val |-> x]
ElemRef(p, k) == [p |-> p, k |-> k, val |-> DefaultValue]
Deref(h, ref) == IF ref.p = NULL THEN ref.val ELSE Cell(h, ref.p, ref.k)

\* items[k] = std::move(ref) on block p: the cell takes the value ref
\* refers to, and the object ref refers to is left moved-from (a temporary
\* is gone after the call; a move of an object to itself leaves it as a
\* moved-from object).
MoveAssignCell(h, p, k, ref) ==
    LET h1 == SetCell(h, p, k, Deref(h, ref))
    IN IF ref.p = NULL THEN h1
       ELSE SetCell(h1, ref.p, ref.k, MovedFrom(Cell(h1, ref.p, ref.k)))

\* SimpleVector() noexcept = default
SvDefault == Obj(NULL, 0, 0)

\* SimpleVector(size_t size, const Type& value)
SvFill(h, size, value) ==
    LET r == ArrayPtrSized(h, size)
    IN [h |-> StdFill(r.h, r.p, 0, size, value), v |-> Obj(r.p, size, size)]

\* explicit SimpleVector(size_t size) : SimpleVector(size, Type{})
SvSized(h, size) == SvFill(h, size, DefaultValue)

RECURSIVE CopyList(_, _, _, _)
\* std::copy(init.begin() + k, init.end(), p + k)
CopyList(h, init, k, p) ==
    IF k >= Len(init) THEN h
    ELSE CopyList(SetCell(h, p, k, init[k + 1]), init, k + 1, p)

\* SimpleVector(std::initializer_list<Type> init)
SvInitList(h, init) ==
    LET r == ArrayPtrSized(h, Len(init))
    IN [h |-> CopyList(r.h, init, 0, r.p), v |-> Obj(r.p, Len(init), Len(init))]

\* Fault: a copy constructor that copies the pointer instead of the elements.
SvCopyShallow(h, other) ==
    [h |-> h, v |-> Obj(other.items_, other.size_, other.size_)]

\* SimpleVector(const SimpleVector& other)
SvCopy(h, other) ==
    LET r == ArrayPtrSized(h, other.size_)
    IN [h |-> StdCopy(r.h, other.items_, 0, other.size_, r.p, 0),
        v |-> Obj(r.p, other.size_, other.size_)]

\* SimpleVector(ReserveProxyObj reserved)
SvReserved(h, capacity) ==
    LET r == ArrayPtrSized(h, capacity)
    IN [h |-> r.h, v |-> Obj(r.p, 0, capacity)]

\* Fault: a move constructor that does not reset the size of `other`.
SvMoveCtorKeepsSize(other) ==
    [v |-> Obj(other.items_, other.size_, other.capacity_),
     other |-> [other EXCEPT !.items_ = NULL, !.capacity_ = 0]]

\* SimpleVector(SimpleVector&& other) noexcept: the new object and `other`
\* afterwards.
SvMoveCtor(other) ==
    LET m == ArrayPtrMoveCtor(other.items_)
    IN [v |-> Obj(m[1], other.size_, other.capacity_),
        other |-> [other EXCEPT !.items_ = m[2], !.size_ = 0, !.capacity_ = 0]]

\* ~SimpleVector(): destroys the member items_.
SvDtor(h, v) == ArrayPtrDtor(h, v.items_)

\* Fault: a reallocation that does not carry the elements over.
ReallocateWithoutMove(h, v, new_capacity) ==
    LET r == ArrayPtrSized(h, new_capacity)
    IN [h |-> r.h, p |-> r.p]

\* ItemsPtr ReallocateMove(size_t new_capacity) const
ReallocateMove(h, v, new_capacity) ==
    LET r == ArrayPtrSized(h, new_capacity)
        copy_size == Min(new_capacity, v.size_)
        h1 == StdMove(r.h, v.items_, 0, copy_size, r.p, 0)
        rel == ArrayPtrRelease(r.p)
    IN [h |-> ArrayPtrDtor(h1, rel[2]), p |-> rel[1]]

\* Fault: the slots are taken as they are.
FillWithDefaultValueSkipped(h, p, from, to) == h

\* static void FillWithDefaultValue(Type* from, Type* to), on block p.
FillWithDefaultValue(h, p, from, to) == StdFill(h, p, from, to, DefaultValue)

\* Fault: growth to the required minimum only.
GrowCapacityExact(capacity, new_size) == new_size

\* The capacity a growing operation asks for: std::max(capacity_ * 2, new_size)
GrowCapacity(capacity, new_size) == StdMax(capacity * 2, new_size)

\* Type& operator[](size_t index) noexcept, within its assertion: the
\* element the returned reference refers to.
Subscript(h, v, index) == Cell(h, v.items_, index)

\* Fault: a bounds check against the capacity.
AtChecksCapacity(h, v, index) ==
    IF index >= v.capacity_ THEN [kind |-> "out_of_range", val |-> 0]
    ELSE [kind |-> "value", val |-> Cell(h, v.items_, index)]

\* Type& At(size_t index) and const Type& At(size_t index) const: how the
\* call ends, and the element the returned reference refers to.
AtAccess(h, v, index) ==
    IF index >= v.size_ THEN [kind |-> "out_of_range", val |-> 0]
    ELSE [kind |-> "value", val |-> Cell(h, v.items_, index)]

\* Fault: a Clear that gives the storage back.
ClearReleases(h, v) == [h |-> ArrayPtrDtor(h, v.items_), v |-> Obj(NULL, 0, 0)]

\* void Clear() noexcept
Clear(h, v) == [h |-> h, v |-> [v EXCEPT !.size_ = 0]]

\* void Reserve(size_t new_capacity)
Reserve(h, v, new_capacity) ==
    IF new_capacity > v.capacity_
    THEN LET r == ReallocateMove(h, v, new_capacity)
             sw == ArrayPtrSwap(v.items_, r.p)
         IN [h |-> ArrayPtrDtor(r.h, sw[2]),
             v |-> [v EXCEPT !.items_ = sw[1], !.capacity_ = new_capacity]]
    ELSE [h |-> h, v |-> v]

\* Fault: a Resize that takes new storage whenever the size grows, also
\* within the capacity.
ResizeAlwaysReallocates(h, v, new_size) ==
    IF new_size > v.size_
    THEN LET new_capacity == IF new_size > v.capacity_
                             THEN GrowCapacity(v.capacity_, new_size)
                             ELSE v.capacity_
             r == ReallocateMove(h, v, new_capacity)
             h1 == FillWithDefaultValue(r.h, r.p, v.size_, new_size)
             sw == ArrayPtrSwap(v.items_, r.p)
         IN [h |-> ArrayPtrDtor(h1, sw[2]),
             v |-> [v EXCEPT !.items_ = sw[1], !.capacity_ = new_capacity,
                             !.size_ = new_size]]
    ELSE [h |-> h, v |-> [v EXCEPT !.size_ = new_size]]

\* void Resize(size_t new_size)
Resize(h, v, new_size) ==
    IF new_size > v.capacity_
    THEN LET new_capacity == GrowCapacity(v.capacity_, new_size)
             r == ReallocateMove(h, v, new_capacity)
             h1 == FillWithDefaultValue(r.h, r.p, v.size_, new_size)
             sw == ArrayPtrSwap(v.items_, r.p)
         IN [h |-> ArrayPtrDtor(h1, sw[2]),
             v |-> [v EXCEPT !.items_ = sw[1], !.capacity_ = new_capacity,
                             !.size_ = new_size]]
    ELSE IF new_size > v.size_
    THEN [h |-> FillWithDefaultValue(h, v.items_, v.size_, new_size),
          v |-> [v EXCEPT !.size_ = new_size]]
    ELSE [h |-> h, v |-> [v EXCEPT !.size_ = new_size]]

\* void PushBack(const Type& item)
PushBackCopy(h, v, item) ==
    LET new_size == v.size_ + 1
    IN IF new_size > v.capacity_
       THEN LET new_capacity == GrowCapacity(v.capacity_, new_size)
                r == ReallocateMove(h, v, new_capacity)
                h1 == SetCell(r.h, r.p, v.size_, Deref(r.h, item))
                sw == ArrayPtrSwap(v.items_, r.p)
            IN [h |-> ArrayPtrDtor(h1, sw[2]),
                v |-> [v EXCEPT !.items_ = sw[1], !.capacity_ = new_capacity,
                                !.size_ = new_size]]
       ELSE [h |-> SetCell(h, v.items_, v.size_, Deref(h, item)),
             v |-> [v EXCEPT !.size_ = new_size]]

\* void PushBack(Type&& item)
PushBackMove(h, v, item) ==
    LET new_size == v.size_ + 1
    IN IF new_size > v.capacity_
       THEN LET new_capacity == GrowCapacity(v.capacity_, new_size)
                r == ReallocateMove(h, v, new_capacity)
                h1 == MoveAssignCell(r.h, r.p, v.size_, item)
                sw == ArrayPtrSwap(v.items_, r.p)
            IN [h |-> ArrayPtrDtor(h1, sw[2]),
                v |-> [v EXCEPT !.items_ = sw[1], !.capacity_ = new_capacity,
                                !.size_ = new_size]]
       ELSE [h |-> MoveAssignCell(h, v.items_, v.size_, item),
             v |-> [v EXCEPT !.size_ = new_size]]

\* void PopBack() noexcept
PopBack(h, v) == [h |-> h, v |-> [v EXCEPT !.size_ = v.size_ - 1]]

\* Iterator Insert(ConstIterator pos, const Type& value), pos = begin() + offset;
\* ret is the offset of the returned iterator from the new begin().
InsertCopy(h, v, new_item_offset, value) ==
    LET new_size == v.size_ + 1
    IN IF new_size <= v.capacity_
       THEN LET h1 == StdCopyBackward(h, v.items_, new_item_offset, v.size_,
                                      v.items_, v.size_ + 1)
            IN [h |-> SetCell(h1, v.items_, new_item_offset, Deref(h1, value)),
                v |-> [v EXCEPT !.size_ = new_size],
                ret |-> new_item_offset]
       ELSE LET new_capacity == GrowCapacity(v.capacity_, new_size)
                r == ArrayPtrSized(h, new_capacity)
                h1 == StdCopy(r.h, v.items_, 0, new_item_offset, r.p, 0)
                h2 == SetCell(h1, r.p, new_item_offset, Deref(h1, value))
                h3 == StdCopy(h2, v.items_, new_item_offset, v.size_,
                              r.p, new_item_offset + 1)
                sw == ArrayPtrSwap(v.items_, r.p)
            IN [h |-> ArrayPtrDtor(h3, sw[2]),
                v |-> [v EXCEPT !.items_ = sw[1], !.capacity_ = new_capacity,
                                !.size_ = new_size],
                ret |-> new_item_offset]

\* Iterator Insert(ConstIterator pos, Type&& value)
InsertMove(h, v, new_item_offset, value) ==
    LET new_size == v.size_ + 1
    IN IF new_size <= v.capacity_
       THEN LET h1 == StdMoveBackward(h, v.items_, new_item_offset, v.size_,
                                      v.items_, v.size_ + 1)
            IN [h |-> MoveAssignCell(h1, v.items_, new_item_offset, value),
                v |-> [v EXCEPT !.size_ = new_size],
                ret |-> new_item_offset]
       ELSE LET new_capacity == GrowCapacity(v.capacity_, new_size)
                r == ArrayPtrSized(h, new_capacity)
                h1 == StdMove(r.h, v.items_, 0, new_item_offset, r.p, 0)
                h2 == MoveAssignCell(h1, r.p, new_item_offset, value)
                h3 == StdMove(h2, v.items_, new_item_offset, v.size_,
                              r.p, new_item_offset + 1)
                sw == ArrayPtrSwap(v.items_, r.p)
            IN [h |-> ArrayPtrDtor(h3, sw[2]),
                v |-> [v EXCEPT !.items_ = sw[1], !.capacity_ = new_capacity,
                                !.size_ = new_size],
                ret |-> new_item_offset]

\* Fault: the size is decremented without moving the tail.
EraseNoShift(h, v, offset) ==
    [h |-> h, v |-> [v EXCEPT !.size_ = v.size_ - 1], ret |-> offset]

\* Iterator Erase(ConstIterator pos), pos = begin() + offset
Erase(h, v, offset) ==
    [h |-> StdMove(h, v.items_, offset + 1, v.size_, v.items_, offset),
     v |-> [v EXCEPT !.size_ = v.size_ - 1],
     ret |-> offset]

\* Fault: a swap that exchanges the buffers and sizes but not the capacities.
SwapKeepsCapacity(vs, i, j) ==
    LET sw == ArrayPtrSwap(vs[i].items_, vs[j].items_)
        s1 == [[vs EXCEPT ![i].items_ = sw[1]] EXCEPT ![j].items_ = sw[2]]
    IN [[s1 EXCEPT ![i].size_ = s1[j].size_] EXCEPT ![j].size_ = s1[i].size_]

\* void swap(SimpleVector& other) noexcept, on objects i and j of store vs.
Swap(vs, i, j) ==
    LET sw == ArrayPtrSwap(vs[i].items_, vs[j].items_)
        s1 == [[vs EXCEPT ![i].items_ = sw[1]] EXCEPT ![j].items_ = sw[2]]
        s2 == [[s1 EXCEPT ![i].size_ = s1[j].size_] EXCEPT ![j].size_ = s1[i].size_]
    IN [[s2 EXCEPT ![i].capacity_ = s2[j].capacity_]
            EXCEPT ![j].capacity_ = s2[i].capacity_]

\* SimpleVector& operator=(const SimpleVector& rhs), this = i, rhs = j.
\* The temporary rhs_copy joins the store for the call of swap and is
\* destroyed at the end of its block.
CopyAssign(h, vs, i, j) ==
    IF j # i
    THEN IF vs[j].size_ = 0
         THEN [h |-> h, vs |-> [vs EXCEPT ![i] = Clear(h, vs[i]).v]]
         ELSE LET c == SvCopy(h, vs[j])
                  withTmp == [k \in Insts \cup {"rhs_copy"} |->
                                 IF k = "rhs_copy" THEN c.v ELSE vs[k]]
                  sw == Swap(withTmp, i, "rhs_copy")
              IN [h |-> SvDtor(c.h, sw["rhs_copy"]),
                  vs |-> [k \in Insts |-> sw[k]]]
    ELSE [h |-> h, vs |-> vs]

\* Fault: a move assignment that leaves the capacity of `other` as it was.
MoveAssignKeepsCapacity(vs, i, j) ==
    LET m == ArrayPtrMoveAssign(vs[i].items_, vs[j].items_)
        s1 == [[vs EXCEPT ![i].items_ = m[1]] EXCEPT ![j].items_ = m[2]]
        old_size == s1[j].size_
        s2 == [[s1 EXCEPT ![j].size_ = 0] EXCEPT ![i].size_ = old_size]
    IN [s2 EXCEPT ![i].capacity_ = s2[j].capacity_]

\* Fault: a move assignment that copies each member and then resets it in
\* `other` (size_ = other.size_; other.size_ = 0;), which empties *this
\* when other is *this.
MoveAssignResetsAfter(vs, i, j) ==
    LET m == ArrayPtrMoveAssign(vs[i].items_, vs[j].items_)
        s1 == [[vs EXCEPT ![i].items_ = m[1]] EXCEPT ![j].items_ = m[2]]
        s2 == [[s1 EXCEPT ![i].size_ = s1[j].size_] EXCEPT ![j].size_ = 0]
    IN [[s2 EXCEPT ![i].capacity_ = s2[j].capacity_] EXCEPT ![j].capacity_ = 0]

\* SimpleVector& operator=(SimpleVector&& other), this = i, other = j; the
\* member assignments are made in the order of the source, on the store, so
\* that i = j is the self-assignment of the source.
MoveAssign(vs, i, j) ==
    LET m == ArrayPtrMoveAssign(vs[i].items_, vs[j].items_)
        s1 == [[vs EXCEPT ![i].items_ = m[1]] EXCEPT ![j].items_ = m[2]]
        old_size == s1[j].size_
        s2 == [[s1 EXCEPT ![j].size_ = 0] EXCEPT ![i].size_ = old_size]
        old_capacity == s2[j].capacity_
    IN [[s2 EXCEPT ![j].capacity_ = 0] EXCEPT ![i].capacity_ = old_capacity]

RECURSIVE StdEqual(_, _, _, _, _, _)
\* std::equal(a+first, a+last, b+bfirst)
StdEqual(h, a, first, last, b, bfirst) ==
    IF first >= last THEN TRUE
    ELSE /\ Cell(h, a, first) = Cell(h, b, bfirst)
         /\ StdEqual(h, a, first + 1, last, b, bfirst + 1)

\* Fault: an equality that also compares the capacities.
OpEqualWithCapacity(h, lhs, rhs) ==
    /\ lhs.size_ = rhs.size_
    /\ lhs.capacity_ = rhs.capacity_
    /\ StdEqual(h, lhs.items_, 0, lhs.size_, rhs.items_, 0)

\* bool operator==(const SimpleVector<Type>& lhs, const SimpleVector<Type>& rhs)
OpEqual(h, lhs, rhs) ==
    /\ lhs.size_ = rhs.size_
    /\ StdEqual(h, lhs.items_, 0, lhs.size_, rhs.items_, 0)

\* bool operator!=(lhs, rhs)
OpNotEqual(h, lhs, rhs) == ~OpEqual(h, lhs, rhs)

RECURSIVE StdLexicographicalCompare(_, _, _, _, _, _, _)
\* std::lexicographical_compare(a+first1, a+last1, b+first2, b+last2)
StdLexicographicalCompare(h, a, first1, last1, b, first2, last2) ==
    IF first1 # last1 /\ first2 # last2
    THEN IF Cell(h, a, first1) < Cell(h, b, first2) THEN TRUE
         ELSE IF Cell(h, b, first2) < Cell(h, a, first1) THEN FALSE
         ELSE StdLexicographicalCompare(h, a, first1 + 1, last1,
                                        b, first2 + 1, last2)
    ELSE first1 = last1 /\ first2 # last2

\* bool operator<(lhs, rhs)
OpLess(h, lhs, rhs) ==
    StdLexicographicalCompare(h, lhs.items_, 0, lhs.size_, rhs.items_, 0, rhs.size_)

\* bool operator>(lhs, rhs)
OpGreater(h, lhs, rhs) == OpLess(h, rhs, lhs)

\* Fault: the operands of < are not exchanged.
OpLessEqNotLess(h, lhs, rhs) == ~OpLess(h, lhs, rhs)

\* bool operator<=(lhs, rhs)
OpLessEq(h, lhs, rhs) == ~OpLess(h, rhs, lhs)

\* bool operator>=(lhs, rhs)
OpGreaterEq(h, lhs, rhs) == OpLessEq(h, rhs, lhs)

(***************************************************************************)
(* The program: a client that constructs, uses and destroys the objects of *)
(* Insts, one call at a time.  Calls outside a function's precondition     *)
(* (PopBack on an empty vector, a position outside [begin, end], unchecked  *)
(* access past the end) are not made.  A call whose allocation fails       *)
(* throws std::bad_alloc before it has changed anything and is left out.   *)
(***************************************************************************)
\* What the client knows of the call that has just returned: the function,
\* the object it was called on (inst), the other object of a two-object
\* call (other, else ""), how it ended (kind: "void", "iter" with the
\* returned offset in val, "value" with the element in val, "bool" with the
\* result in val, "out_of_range", "terminate"), whether inst's capacity changed (grew), and whether before
\* the call a slot of inst in [size_, capacity_) held a value other than
\* Type{} (stale).
Ret(op, inst, other, kind, val, grew, stale) ==
    [op |-> op, inst |-> inst, other |-> other, kind |-> kind, val |-> val,
     grew |-> grew, stale |-> stale]

NoCall == Ret("none", "", "", "void", 0, FALSE, FALSE)

Stale(h, v) ==
    \E k \in 0..(v.capacity_ - 1) :
        k >= v.size_ /\ v.items_ # NULL /\ Cell(h, v.items_, k) # DefaultValue

\* The result of a call that may modify inst, and of one that only reads it.
Result(op, i, j, kind, val, after) ==
    Ret(op, i, j, kind, val, after.capacity_ # vec[i].capacity_,
        Stale(heap, vec[i]))

ReadResult(op, i, kind, val) == Ret(op, i, "", kind, val, FALSE, FALSE)

Lists == UNION {[1..n -> Values] : n \in Counts}

\* Object i can be constructed / can be used.
Idle == ~terminated /\ lastOp.op = "none"
Fresh(i) == Idle /\ i \in world.objs /\ ~vec[i].alive
Live(i) == Idle /\ vec[i].alive

\* The element types: int, and a class type whose moved-from objects are
\* empty (std::string; value 0 stands for the empty string).
ElemTypes == {"int", "string"}

\* A program with two vectors, and a program with one vector and more room,
\* each over either element type.
Worlds == {[objs |-> Insts, cells |-> PairCells, elem |-> t] : t \in ElemTypes}
            \cup {[objs |-> {"a"}, cells |-> HeapCells, elem |-> t] : t \in ElemTypes}

Init ==
    /\ vec = [i \in Insts |-> NoObj]
    /\ heap = EmptyHeap
    /\ world \in Worlds
    /\ terminated = FALSE
    /\ lastOp = NoCall

\* A call on object i with result r = [h, v], which was handed object j or
\* one of its elements (j = "" when it was not): commit it.
CommitArg(i, j, r, op, kind, val) ==
    /\ heap' = r.h
    /\ vec' = [vec EXCEPT ![i] = r.v]
    /\ lastOp' = Result(op, i, j, kind, val, r.v)
    /\ UNCHANGED <<world, terminated>>

\* One-object call with result r = [h, v]: commit it.
Commit(i, r, op, kind, val) == CommitArg(i, "", r, op, kind, val)

CtorDefault(i) ==
    /\ Fresh(i)
    /\ Commit(i, [h |-> heap, v |-> SvDefault], "CtorDefault", "void", 0)

CtorSized(i, n) ==
    /\ Fresh(i)
    /\ CanAlloc(heap, n)
    /\ Commit(i, SvSized(heap, n), "CtorSized", "void", 0)

CtorFill(i, n, value) ==
    /\ Fresh(i)
    /\ CanAlloc(heap, n)
    /\ Commit(i, SvFill(heap, n, value), "CtorFill", "void", 0)

CtorInitList(i, init) ==
    /\ Fresh(i)
    /\ CanAlloc(heap, Len(init))
    /\ Commit(i, SvInitList(heap, init), "CtorInitList", "void", 0)

CtorReserved(i, c) ==
    /\ Fresh(i)
    /\ CanAlloc(heap, c)
    /\ Commit(i, SvReserved(heap, c), "CtorReserved", "void", 0)

CtorCopy(i, j) ==
    /\ Fresh(i) /\ Live(j)
    /\ CanAlloc(heap, vec[j].size_)
    /\ LET r == SvCopy(heap, vec[j])
       IN /\ heap' = r.h
          /\ vec' = [vec EXCEPT ![i] = r.v]
          /\ lastOp' = Result("CtorCopy", i, j, "void", 0, r.v)
    /\ UNCHANGED <<world, terminated>>

CtorMove(i, j) ==
    /\ Fresh(i) /\ Live(j)
    /\ LET m == SvMoveCtor(vec[j])
       IN /\ vec' = [vec EXCEPT ![i] = m.v, ![j] = m.other]
          /\ lastOp' = Result("CtorMove", i, j, "void", 0, m.v)
    /\ UNCHANGED <<heap, world, terminated>>

Dtor(i) ==
    /\ Live(i)
    /\ heap' = SvDtor(heap, vec[i])
    /\ vec' = [vec EXCEPT ![i] = NoObj]
    /\ lastOp' = Result("Dtor", i, "", "void", 0, NoObj)
    /\ UNCHANGED <<world, terminated>>

\* Type& operator[](size_t index) noexcept, within its assertion.
Index(i, index) ==
    /\ Live(i) /\ index < vec[i].size_
    /\ lastOp' = ReadResult("Index", i, "value", Subscript(heap, vec[i], index))
    /\ UNCHANGED <<vec, heap, world, terminated>>

\* const Type& operator[](size_t index) const noexcept: the exception leaves
\* a noexcept function, so std::terminate is called.
IndexConst(i, index) ==
    /\ Live(i)
    /\ IF index >= vec[i].size_
       THEN /\ terminated' = TRUE
            /\ lastOp' = ReadResult("IndexConst", i, "terminate", 0)
       ELSE /\ terminated' = terminated
            /\ lastOp' = ReadResult("IndexConst", i, "value",
                                    Cell(heap, vec[i].items_, index))
    /\ UNCHANGED <<vec, heap, world>>

\* Type& At(size_t index) and const Type& At(size_t index) const
At(i, index) ==
    /\ Live(i)
    /\ LET r == AtAccess(heap, vec[i], index)
       IN lastOp' = ReadResult("At", i, r.kind, r.val)
    /\ UNCHANGED <<vec, heap, world, terminated>>

DoCopyAssign(i, j) ==
    /\ Live(i) /\ Live(j)
    /\ (j # i /\ vec[j].size_ # 0) => CanAlloc(heap, vec[j].size_)
    /\ LET r == CopyAssign(heap, vec, i, j)
       IN /\ heap' = r.h
          /\ vec' = r.vs
          /\ lastOp' = Result("CopyAssign", i, j, "void", 0, r.vs[i])
    /\ UNCHANGED <<world, terminated>>

DoMoveAssign(i, j) ==
    /\ Live(i) /\ Live(j)
    /\ LET vs == MoveAssign(vec, i, j)
       IN /\ vec' = vs
          /\ lastOp' = Result("MoveAssign", i, j, "void", 0, vs[i])
    /\ UNCHANGED <<heap, world, terminated>>

DoSwap(i, j) ==
    /\ Live(i) /\ Live(j)
    /\ LET vs == Swap(vec, i, j)
       IN /\ vec' = vs
          /\ lastOp' = Result("swap", i, j, "void", 0, vs[i])
    /\ UNCHANGED <<heap, world, terminated>>

DoClear(i) ==
    /\ Live(i)
    /\ Commit(i, Clear(heap, vec[i]), "Clear", "void", 0)

DoReserve(i, n) ==
    /\ Live(i)
    /\ n > vec[i].capacity_ => CanAlloc(heap, n)
    /\ Commit(i, Reserve(heap, vec[i], n), "Reserve", "void", 0)

DoResize(i, n) ==
    /\ Live(i)
    /\ n > vec[i].capacity_ => CanAlloc(heap, GrowCapacity(vec[i].capacity_, n))
    /\ Commit(i, Resize(heap, vec[i], n), "Resize", "void", 0)

\* PushBack and Insert allocate when size_ + 1 > capacity_.
RoomFor(h, v) ==
    v.size_ + 1 > v.capacity_ =>
        CanAlloc(h, GrowCapacity(v.capacity_, v.size_ + 1))

\* The references a caller can pass as `const Type&`: a temporary, or an
\* element of the vector itself (v.PushBack(v[k]), v.Insert(pos, v[k])).
Refs(v) == {TempRef(x) : x \in Values}
             \cup {ElemRef(v.items_, k) : k \in 0..(v.size_ - 1)}

DoPushBackCopy(i, item) ==
    /\ Live(i) /\ RoomFor(heap, vec[i])
    /\ item \in Refs(vec[i])
    /\ Commit(i, PushBackCopy(heap, vec[i], item), "PushBackCopy", "void", 0)

\* The references a caller can pass as `Type&&`: a temporary, or
\* std::move of an element of any vector (v.PushBack(std::move(w[k]))).
MoveRefs == {TempRef(x) : x \in Values}
              \cup UNION {{ElemRef(vec[j].items_, k) : k \in 0..(vec[j].size_ - 1)} :
                             j \in {o \in Insts : vec[o].alive}}

\* ref refers to an element of v.
OwnRef(v, ref) == ref.p # NULL /\ ref.p = v.items_

\* The object other than i that ref refers into ("" when there is none).
ArgOwner(i, ref) ==
    IF \E j \in Insts : j # i /\ OwnRef(vec[j], ref)
    THEN CHOOSE j \in Insts : j # i /\ OwnRef(vec[j], ref)
    ELSE ""

DoPushBackMove(i, item) ==
    /\ Live(i) /\ RoomFor(heap, vec[i])
    /\ item \in MoveRefs
    /\ CommitArg(i, ArgOwner(i, item), PushBackMove(heap, vec[i], item),
                 "PushBackMove", "void", 0)

DoPopBack(i) ==
    /\ Live(i) /\ vec[i].size_ > 0
    /\ Commit(i, PopBack(heap, vec[i]), "PopBack", "void", 0)

DoInsertCopy(i, offset, value) ==
    /\ Live(i) /\ RoomFor(heap, vec[i])
    /\ offset <= vec[i].size_
    /\ value \in Refs(vec[i])
    /\ LET r == InsertCopy(heap, vec[i], offset, value)
       IN Commit(i, r, "InsertCopy", "iter", r.ret)

DoInsertMove(i, offset, value) ==
    /\ Live(i) /\ RoomFor(heap, vec[i])
    /\ offset <= vec[i].size_
    /\ value \in MoveRefs
    /\ LET r == InsertMove(heap, vec[i], offset, value)
       IN CommitArg(i, ArgOwner(i, value), r, "InsertMove", "iter", r.ret)

DoErase(i, offset) ==
    /\ Live(i) /\ offset < vec[i].size_
    /\ LET r == Erase(heap, vec[i], offset)
       IN Commit(i, r, "Erase", "iter", r.ret)

\* A comparison of objects i (lhs) and j (rhs) has returned result.
Compare(op, i, j, result) ==
    /\ Live(i) /\ Live(j)
    /\ lastOp' = Ret(op, i, j, "bool", result, FALSE, FALSE)
    /\ UNCHANGED <<vec, heap, world, terminated>>

DoEqual(i, j) == Compare("==", i, j, OpEqual(heap, vec[i], vec[j]))

DoNotEqual(i, j) == Compare("!=", i, j, OpNotEqual(heap, vec[i], vec[j]))

DoGreater(i, j) == Compare(">", i, j, OpGreater(heap, vec[i], vec[j]))

DoLess(i, j) == Compare("<", i, j, OpLess(heap, vec[i], vec[j]))

DoLessEq(i, j) == Compare("<=", i, j, OpLessEq(heap, vec[i], vec[j]))

DoGreaterEq(i, j) == Compare(">=", i, j, OpGreaterEq(heap, vec[i], vec[j]))

\* The client takes the result of the call and goes on.
Return ==
    /\ ~terminated /\ lastOp.op # "none"
    /\ lastOp' = NoCall
    /\ UNCHANGED <<vec, heap, world, terminated>>

\* The objects the client can construct now, and those it can call.
FreshObjs == {i \in Insts : Fresh(i)}
LiveObjs == {i \in Insts : Live(i)}

Next ==
    \/ \E i \in FreshObjs : CtorDefault(i)
    \/ \E i \in FreshObjs, n \in Counts : CtorSized(i, n)
    \/ \E i \in FreshObjs, n \in Counts, x \in Values : CtorFill(i, n, x)
    \/ \E i \in FreshObjs, init \in Lists : CtorInitList(i, init)
    \/ \E i \in FreshObjs, c \in Counts : CtorReserved(i, c)
    \/ \E i \in FreshObjs, j \in LiveObjs : CtorCopy(i, j)
    \/ \E i \in FreshObjs, j \in LiveObjs : CtorMove(i, j)
    \/ \E i \in LiveObjs : Dtor(i)
    \/ \E i \in LiveObjs, k \in Counts : Index(i, k)
    \/ \E i \in LiveObjs, k \in Counts : IndexConst(i, k)
    \/ \E i \in LiveObjs, k \in Counts : At(i, k)
    \/ \E i, j \in LiveObjs : DoCopyAssign(i, j)
    \/ \E i, j \in LiveObjs : DoMoveAssign(i, j)
    \/ \E i, j \in LiveObjs : DoSwap(i, j)
    \/ \E i \in LiveObjs : DoClear(i)
    \/ \E i \in LiveObjs, n \in Counts : DoReserve(i, n)
    \/ \E i \in LiveObjs, n \in Counts : DoResize(i, n)
    \/ \E i \in LiveObjs : \E item \in Refs(vec[i]) : DoPushBackCopy(i, item)
    \/ \E i \in LiveObjs : \E item \in MoveRefs : DoPushBackMove(i, item)
    \/ \E i \in LiveObjs : DoPopBack(i)
    \/ \E i \in LiveObjs, k \in Counts :
          \E value \in Refs(vec[i]) : DoInsertCopy(i, k, value)
    \/ \E i \in LiveObjs, k \in Counts :
          \E value \in MoveRefs : DoInsertMove(i, k, value)
    \/ \E i \in LiveObjs, k \in Counts : DoErase(i, k)
    \/ \E i, j \in LiveObjs : DoEqual(i, j)
    \/ \E i, j \in LiveObjs : DoNotEqual(i, j)
    \/ \E i, j \in LiveObjs : DoGreater(i, j)
    \/ \E i, j \in LiveObjs : DoLess(i, j)
    \/ \E i, j \in LiveObjs : DoLessEq(i, j)
    \/ \E i, j \in LiveObjs : DoGreaterEq(i, j)
    \/ Return

Spec == Init /\ [][Next]_vars

(***************************************************************************)
(* Properties.                                                             *)
(***************************************************************************)
\* The live elements of v, positions [0, size_), as a sequence.
Contents(h, v) ==
    IF v.items_ = NULL THEN <<>>
    ELSE LET c == h.block[v.items_].cells
         IN [k \in 1..Min(v.size_, Len(c)) |-> c[k]]

\* s with x put before its element at 0-based position p.
InsertAt(s, p, x) == SubSeq(s, 1, p) \o <<x>> \o SubSeq(s, p + 1, Len(s))

\* s without its element at 0-based position p.
RemoveAt(s, p) == SubSeq(s, 1, p) \o SubSeq(s, p + 2, Len(s))

\* The step is the return of a call of op on object i (implied by the
\* action of that call; stated first so that the action is only evaluated
\* on the steps it can be).
Calls(op, i) == lastOp'.op = op /\ lastOp'.inst = i

\* C1: in every reachable state every constructed SimpleVector satisfies
\* 0 <= size_ <= capacity_.
SizeWithinCapacity ==
    \A i \in Insts :
        vec[i].alive => (0 <= vec[i].size_ /\ vec[i].size_ <= vec[i].capacity_)

\* An Insert has just reallocated: 2 of 2 slots were in use, now 3 of 4 are.
SizeWithinCapacityWitness ==
    /\ lastOp.op \in {"InsertCopy", "InsertMove"} /\ lastOp.grew
    /\ vec[lastOp.inst].size_ = 3 /\ vec[lastOp.inst].capacity_ = 4

\* C2: no block is held by two ArrayPtr at once, no block is released
\* twice, and the blocks that are allocated are exactly those held by the
\* constructed vectors (so none is left once every vector is destroyed).
SingleOwnerReleasedOnce ==
    /\ ~heap.doubleFree
    /\ \A i, j \in Insts :
          (i # j /\ vec[i].items_ # NULL) => vec[i].items_ # vec[j].items_
    /\ \A p \in Addrs :
          heap.block[p].live <=> \E i \in Insts : vec[i].alive /\ vec[i].items_ = p
    /\ (\A i \in Insts : ~vec[i].alive) => FreeAddrs(heap) = Addrs

\* A move assignment between two vectors that both held a block: the two
\* blocks have changed hands and both are still allocated.
SingleOwnerWitness ==
    /\ lastOp.op = "MoveAssign" /\ lastOp.inst # lastOp.other
    /\ vec[lastOp.inst].items_ # NULL /\ vec[lastOp.other].items_ # NULL
    /\ vec[lastOp.inst].size_ > 0

\* C3: a move (construction or assignment, source j and destination i
\* distinct) leaves j with size_ = capacity_ = 0 and gives i the size,
\* capacity and elements j had, whatever i held before.
MoveTransfersContent ==
    [][\A i, j \in Insts :
          (/\ i # j
           /\ \/ Calls("CtorMove", i) /\ CtorMove(i, j)
              \/ Calls("MoveAssign", i) /\ DoMoveAssign(i, j)) =>
              /\ vec'[j].size_ = 0 /\ vec'[j].capacity_ = 0
              /\ vec'[i].size_ = vec[j].size_
              /\ vec'[i].capacity_ = vec[j].capacity_
              /\ Contents(heap', vec'[i]) = Contents(heap, vec[j])]_vars

\* A move assignment onto a vector that held a block of its own, from a
\* source with elements and spare capacity.
MoveWitness ==
    /\ lastOp.op = "MoveAssign" /\ lastOp.inst # lastOp.other
    /\ vec[lastOp.other].items_ # NULL /\ vec[lastOp.other].capacity_ = 0
    /\ vec[lastOp.inst].size_ > 0
    /\ vec[lastOp.inst].capacity_ > vec[lastOp.inst].size_

\* C4: operator[] const with index >= size_ ends with an out-of-range error
\* the caller can catch: the program goes on and the vector is unchanged.
ConstIndexOutOfRangeIsCatchable ==
    [][\A i \in Insts, k \in Counts :
          (Calls("IndexConst", i) /\ IndexConst(i, k) /\ k >= vec[i].size_) =>
              /\ lastOp'.kind = "out_of_range"
              /\ ~terminated'
              /\ vec' = vec /\ heap' = heap]_vars

\* What C5 asks of a call of Insert at offset p with a value equal to x.
InsertPost(i, p, x) ==
    /\ Contents(heap', vec'[i]) = InsertAt(Contents(heap, vec[i]), p, x)
    /\ vec'[i].size_ = vec[i].size_ + 1
    /\ lastOp'.kind = "iter" /\ lastOp'.val = p
    /\ Cell(heap', vec'[i].items_, lastOp'.val) = x

\* C5: Insert at p in [0, n] of a value x, in the copy form and the move
\* form, with and without reallocation, yields s[0..p) ++ [x] ++ s[p..n),
\* size n + 1, and returns the locator of position p, which holds x.
\* (The move form is given a temporary or an element of another vector:
\* an rvalue reference to an element of the vector itself hands the caller's
\* own element over and is no value apart from the sequence.)
InsertPlacesValue ==
    [][\A i \in Insts, p \in Counts :
          /\ \A value \in Refs(vec[i]) :
                (Calls("InsertCopy", i) /\ DoInsertCopy(i, p, value)) =>
                    InsertPost(i, p, Deref(heap, value))
          /\ \A value \in MoveRefs :
                (Calls("InsertMove", i) /\ ~OwnRef(vec[i], value)
                     /\ DoInsertMove(i, p, value)) =>
                    InsertPost(i, p, Deref(heap, value))]_vars

\* C5 for the calls whose value is no element of the vector: the copy form
\* given a temporary, and the move form given a temporary or an element
\* of another vector.
InsertOfOutsideValue ==
    [][\A i \in Insts, p \in Counts :
          /\ \A x \in Values :
                (Calls("InsertCopy", i) /\ DoInsertCopy(i, p, TempRef(x))) =>
                    InsertPost(i, p, x)
          /\ \A value \in MoveRefs :
                (Calls("InsertMove", i) /\ ~OwnRef(vec[i], value)
                     /\ DoInsertMove(i, p, value)) =>
                    InsertPost(i, p, Deref(heap, value))]_vars

\* C6: PushBack, Insert (required minimum m = size_ + 1) and Resize
\* (m = new size) leave capacity_ = max(2 * capacity_, m) when m > capacity_,
\* and leave capacity_ and the block alone when m <= capacity_.
GrowthPolicy ==
    [][\A i \in Insts :
          LET c == vec[i].capacity_
              Grown(m) ==
                  IF m > c
                  THEN vec'[i].capacity_ = (IF 2 * c > m THEN 2 * c ELSE m)
                  ELSE vec'[i].capacity_ = c /\ vec'[i].items_ = vec[i].items_
          IN /\ ( \/ /\ Calls("PushBackCopy", i)
                     /\ \E item \in Refs(vec[i]) : DoPushBackCopy(i, item)
                  \/ /\ Calls("PushBackMove", i)
                     /\ \E item \in MoveRefs : DoPushBackMove(i, item)
                  \/ /\ Calls("InsertCopy", i)
                     /\ \E p \in Counts, value \in Refs(vec[i]) :
                           DoInsertCopy(i, p, value)
                  \/ /\ Calls("InsertMove", i)
                     /\ \E p \in Counts, value \in MoveRefs :
                           DoInsertMove(i, p, value) )
                => Grown(vec[i].size_ + 1)
             /\ \A m \in Counts :
                   (Calls("Resize", i) /\ DoResize(i, m)) => Grown(m)]_vars

\* A PushBack on a full vector of capacity 2: doubling (4) exceeds the
\* required minimum (3).
GrowthWitness ==
    /\ lastOp.op \in {"PushBackCopy", "PushBackMove"} /\ lastOp.grew
    /\ vec[lastOp.inst].size_ = 3 /\ vec[lastOp.inst].capacity_ = 4

\* C7: a copy-constructed vector is operator== to its source and has
\* capacity_ equal to the source's size_; and a call on one object leaves
\* the size, capacity and elements of every other object as they were
\* (unless the caller hands it the other object to assign, swap or move
\* from, or an element of the other object to move from).
CopyIsEqualAndIndependent ==
    [][/\ \A i, j \in Insts :
             (Calls("CtorCopy", i) /\ CtorCopy(i, j)) =>
                 /\ OpEqual(heap', vec'[i], vec'[j])
                 /\ vec'[i].capacity_ = vec[j].size_
                 /\ vec'[i].size_ = vec[j].size_
       /\ \A i, j \in Insts :
             (i # j /\ lastOp'.inst = i /\ lastOp'.other \in {"", j}
                  /\ lastOp'.op \notin {"CtorMove", "CopyAssign", "MoveAssign", "swap"}
                  /\ ~(lastOp'.op \in {"PushBackMove", "InsertMove"}
                           /\ lastOp'.other = j)) =>
                 /\ vec'[j].size_ = vec[j].size_
                 /\ vec'[j].capacity_ = vec[j].capacity_
                 /\ Contents(heap', vec'[j]) = Contents(heap, vec[j])]_vars

\* A copy of a vector with one element and capacity 2.
CopyWitness ==
    /\ lastOp.op = "CtorCopy"
    /\ vec[lastOp.other].size_ = 1 /\ vec[lastOp.other].capacity_ = 2
    /\ vec[lastOp.inst].capacity_ = 1
    /\ Contents(heap, vec[lastOp.inst]) # <<DefaultValue>>

\* C8: Resize(n) leaves size_ = n, keeps the elements at [0, min(old, n)),
\* and when n > old makes every element at [old, n) equal to Type{}.
ResizeSetsSizeAndDefaults ==
    [][\A i \in Insts, n \in Counts :
          (Calls("Resize", i) /\ DoResize(i, n)) =>
              LET old == Contents(heap, vec[i])
                  new == Contents(heap', vec'[i])
              IN /\ vec'[i].size_ = n /\ Len(new) = n
                 /\ \A k \in 1..Min(Len(old), n) : new[k] = old[k]
                 /\ \A k \in (Len(old) + 1)..n : new[k] = DefaultValue]_vars

\* A Resize up to the full capacity, without reallocation, of a vector that
\* had a stale value other than Type{} beyond its size.
ResizeWitness ==
    /\ lastOp.op = "Resize" /\ ~lastOp.grew /\ lastOp.stale
    /\ vec[lastOp.inst].size_ = vec[lastOp.inst].capacity_
    /\ vec[lastOp.inst].size_ >= 2

\* C9: Erase at p in [0, n) yields s[0..p) ++ s[p+1..n), size n - 1, the
\* same capacity, and returns the locator of position p, where the element
\* that followed now is (end() when the last element was erased).
EraseRemovesElement ==
    [][\A i \in Insts, p \in Counts :
          (Calls("Erase", i) /\ DoErase(i, p)) =>
              LET s == Contents(heap, vec[i])
                  n == vec[i].size_
              IN /\ Contents(heap', vec'[i]) = RemoveAt(s, p)
                 /\ vec'[i].size_ = n - 1
                 /\ vec'[i].capacity_ = vec[i].capacity_
                 /\ lastOp'.kind = "iter" /\ lastOp'.val = p
                 /\ p < n - 1 => Cell(heap', vec'[i].items_, lastOp'.val) = s[p + 2]
                 /\ p = n - 1 => lastOp'.val = vec'[i].size_]_vars

\* An Erase before the last element of a vector whose elements differ.
EraseWitness ==
    /\ lastOp.op = "Erase"
    /\ lastOp.val = 1 /\ vec[lastOp.inst].size_ = 3
    /\ Contents(heap, vec[lastOp.inst]) = <<1, 0, 1>>

\* C10: a = a, as copy assignment and as move assignment, leaves the size,
\* capacity and elements of a as they were.
SelfAssignmentKeeps ==
    [][\A i \in Insts :
          ( \/ Calls("CopyAssign", i) /\ DoCopyAssign(i, i)
            \/ Calls("MoveAssign", i) /\ DoMoveAssign(i, i) ) =>
              /\ vec'[i].size_ = vec[i].size_
              /\ vec'[i].capacity_ = vec[i].capacity_
              /\ Contents(heap', vec'[i]) = Contents(heap, vec[i])]_vars

\* A move assignment of a non-empty vector to itself.
SelfAssignmentWitness ==
    /\ lastOp.op = "MoveAssign" /\ lastOp.inst = lastOp.other
    /\ vec[lastOp.inst].size_ = 2 /\ vec[lastOp.inst].capacity_ = 3
    /\ Contents(heap, vec[lastOp.inst]) = <<1, 0>>

\* C11: a = b by copy assignment, a and b distinct, leaves b as it was and
\* makes a operator== to b; when b is empty a gets size_ = 0 and keeps its
\* capacity_ and its block; otherwise a holds the elements of b in order
\* with size_ = capacity_ = b.size_.
CopyAssignMakesEqual ==
    [][\A i, j \in Insts :
          (i # j /\ Calls("CopyAssign", i) /\ DoCopyAssign(i, j)) =>
              /\ vec'[j] = vec[j]
              /\ Contents(heap', vec'[j]) = Contents(heap, vec[j])
              /\ OpEqual(heap', vec'[i], vec'[j])
              /\ Contents(heap', vec'[i]) = Contents(heap, vec[j])
              /\ IF vec[j].size_ = 0
                 THEN /\ vec'[i].size_ = 0
                      /\ vec'[i].capacity_ = vec[i].capacity_
                      /\ vec'[i].items_ = vec[i].items_
                 ELSE /\ vec'[i].size_ = vec[j].size_
                      /\ vec'[i].capacity_ = vec[j].size_]_vars

\* A copy assignment from a source with one element and spare capacity to
\* a vector that had no capacity.
CopyAssignWitness ==
    /\ lastOp.op = "CopyAssign" /\ lastOp.inst # lastOp.other /\ lastOp.grew
    /\ vec[lastOp.other].size_ = 1 /\ vec[lastOp.other].capacity_ = 2
    /\ Contents(heap, vec[lastOp.inst]) = <<1>>
    /\ vec[lastOp.inst].capacity_ = 1

\* C12: At(k) with k < size_ returns the element operator[](k) returns; with
\* k >= size_ it throws std::out_of_range; in both cases the vector is as it
\* was and the program goes on.
AtAgreesWithSubscript ==
    [][\A i \in Insts, k \in Counts :
          (Calls("At", i) /\ At(i, k)) =>
              /\ vec' = vec /\ heap' = heap /\ ~terminated'
              /\ IF k < vec[i].size_
                 THEN /\ lastOp'.kind = "value"
                      /\ lastOp'.val = Subscript(heap, vec[i], k)
                 ELSE lastOp'.kind = "out_of_range"]_vars

\* At has thrown on a vector that has elements and spare capacity.
AtWitness ==
    /\ lastOp.op = "At" /\ lastOp.kind = "out_of_range"
    /\ vec[lastOp.inst].size_ > 0
    /\ vec[lastOp.inst].capacity_ > vec[lastOp.inst].size_

\* What C13 asks of a call of PushBack with a value equal to x.
PushBackPost(i, x) ==
    LET n == vec[i].size_
    IN /\ vec'[i].size_ = n + 1
       /\ AtAccess(heap', vec'[i], n) = [kind |-> "value", val |-> x]
       /\ SubSeq(Contents(heap', vec'[i]), 1, n) = Contents(heap, vec[i])

\* C13: PushBack of a value x, in the copy form and the move form, with and
\* without reallocation, leaves size_ = n + 1, At(n) returning x, and the
\* elements at [0, n) as they were.  (The move form is given a temporary or
\* an element of another vector, as for C5.)
PushBackAppends ==
    [][\A i \in Insts :
          /\ \A item \in Refs(vec[i]) :
                (Calls("PushBackCopy", i) /\ DoPushBackCopy(i, item)) =>
                    PushBackPost(i, Deref(heap, item))
          /\ \A item \in MoveRefs :
                (Calls("PushBackMove", i) /\ ~OwnRef(vec[i], item)
                     /\ DoPushBackMove(i, item)) =>
                    PushBackPost(i, Deref(heap, item))]_vars

\* C13 for the calls whose value is no element of the vector (the copy form
\* given a temporary, the move form given a temporary or an element of
\* another vector), and for every call when Type is int.
PushBackOfOutsideValue ==
    [][\A i \in Insts :
          /\ \A x \in Values :
                (Calls("PushBackCopy", i) /\ DoPushBackCopy(i, TempRef(x))) =>
                    PushBackPost(i, x)
          /\ \A item \in MoveRefs :
                (Calls("PushBackMove", i) /\ DoPushBackMove(i, item)
                     /\ (~OwnRef(vec[i], item) \/ world.elem = "int")) =>
                    PushBackPost(i, Deref(heap, item))
          /\ \A item \in Refs(vec[i]) :
                (world.elem = "int" /\ Calls("PushBackCopy", i)
                     /\ DoPushBackCopy(i, item)) =>
                    PushBackPost(i, Deref(heap, item))]_vars

\* C14: Reserve(n) with n > capacity_ leaves capacity_ = n; with
\* n <= capacity_ it leaves capacity_ and the block as they were; in both
\* cases size_ and the elements at [0, size_) are unchanged, and capacity_
\* is not lowered.
ReserveKeepsContent ==
    [][\A i \in Insts, n \in Counts :
          (Calls("Reserve", i) /\ DoReserve(i, n)) =>
              /\ IF n > vec[i].capacity_
                 THEN vec'[i].capacity_ = n
                 ELSE /\ vec'[i].capacity_ = vec[i].capacity_
                      /\ vec'[i].items_ = vec[i].items_
                      /\ heap' = heap
              /\ vec'[i].capacity_ >= vec[i].capacity_
              /\ vec'[i].size_ = vec[i].size_
              /\ Contents(heap', vec'[i]) = Contents(heap, vec[i])]_vars

\* A Reserve that has reallocated a vector with two different elements.
ReserveWitness ==
    /\ lastOp.op = "Reserve" /\ lastOp.grew
    /\ vec[lastOp.inst].capacity_ = 4
    /\ Contents(heap, vec[lastOp.inst]) = <<0, 1>>

\* C15: Insert at p in [0, n] followed by Erase at p restores the sequence
\* and the size the vector had; the capacity is not lower.  The call of
\* Erase is made on the state the call of Insert has left.  The value is
\* any argument of the copy form, and for the move form a temporary or an
\* element of another vector (std::move of an element of the vector itself
\* gives that element of the sequence away).
InsertThenEraseRestores ==
    [][\A i \in Insts, p \in Counts :
          ( \/ /\ Calls("InsertCopy", i)
               /\ \E value \in Refs(vec[i]) : DoInsertCopy(i, p, value)
            \/ /\ Calls("InsertMove", i)
               /\ \E value \in MoveRefs :
                     ~OwnRef(vec[i], value) /\ DoInsertMove(i, p, value) ) =>
              LET e == Erase(heap', vec'[i], p)
              IN /\ p < vec'[i].size_
                 /\ Contents(e.h, e.v) = Contents(heap, vec[i])
                 /\ e.v.size_ = vec[i].size_
                 /\ e.v.capacity_ >= vec[i].capacity_]_vars

\* An Insert, without reallocation, before the last of the two different
\* elements of a vector.
RoundTripWitness ==
    /\ lastOp.op = "InsertCopy" /\ ~lastOp.grew
    /\ lastOp.val = 1 /\ vec[lastOp.inst].size_ = 3
    /\ Contents(heap, vec[lastOp.inst])[1] # Contents(heap, vec[lastOp.inst])[3]

\* C16 as stated: the capacity of a vector is lowered by nothing but an
\* assignment to or from it.
CapacityLoweredOnlyByAssignment ==
    [][\A i \in Insts :
          (vec[i].alive /\ vec'[i].alive
               /\ vec'[i].capacity_ < vec[i].capacity_) =>
              /\ lastOp'.op \in {"CopyAssign", "MoveAssign"}
              /\ i \in {lastOp'.inst, lastOp'.other}]_vars

\* C16, amended: the capacity of a vector is lowered by nothing but an
\* assignment, a swap or a move construction it takes part in; PushBack,
\* PopBack, Clear, Resize, Reserve, Insert and Erase never lower it.
CapacityNeverLoweredByMutators ==
    [][\A i \in Insts :
          /\ (vec[i].alive /\ vec'[i].alive
                  /\ vec'[i].capacity_ < vec[i].capacity_) =>
                 /\ lastOp'.op \in {"CopyAssign", "MoveAssign", "swap", "CtorMove"}
                 /\ i \in {lastOp'.inst, lastOp'.other}
          /\ (lastOp'.inst = i
                  /\ lastOp'.op \in {"PushBackCopy", "PushBackMove", "PopBack",
                                     "Clear", "Resize", "Reserve", "InsertCopy",
                                     "InsertMove", "Erase"}) =>
                 vec'[i].capacity_ >= vec[i].capacity_]_vars

\* A Clear of a vector that had elements in all of its three slots.
CapacityKeptWitness ==
    /\ lastOp.op = "Clear" /\ lastOp.inst = "a"
    /\ vec["a"].size_ = 0 /\ vec["a"].capacity_ = 3
    /\ Contents(heap, [vec["a"] EXCEPT !.size_ = 3]) = <<1, 1, 1>>

\* C17: a == b is true exactly when a and b have the same size and equal
\* elements at every position of [0, size), whatever their capacities and
\* whatever the slots at [size, capacity) hold; a != b is its negation.
EqualityIsElementwise ==
    \A i, j \in Insts :
        (lastOp.inst = i /\ lastOp.other = j) =>
            LET a == Contents(heap, vec[i])
                b == Contents(heap, vec[j])
                same == /\ vec[i].size_ = vec[j].size_
                        /\ \A k \in 1..vec[i].size_ : a[k] = b[k]
            IN /\ lastOp.op = "==" => lastOp.val = same
               /\ lastOp.op = "!=" =>
                     (lastOp.val = ~same /\ lastOp.val = ~OpEqual(heap, vec[i], vec[j]))

\* Two vectors with the same element, different capacities and a value
\* other than Type{} beyond the size of one of them have compared equal.
EqualityWitness ==
    /\ lastOp.op = "==" /\ lastOp.inst # lastOp.other /\ lastOp.val = TRUE
    /\ vec[lastOp.inst].size_ = 1
    /\ vec[lastOp.inst].capacity_ # vec[lastOp.other].capacity_
    /\ Stale(heap, vec[lastOp.inst])

\* s is before t in the lexicographic order: at the first position where
\* they differ s has the lesser element, or s is a proper prefix of t.
SeqLess(s, t) ==
    \E k \in 0..Min(Len(s), Len(t)) :
        /\ \A m \in 1..k : s[m] = t[m]
        /\ \/ k = Len(s) /\ k < Len(t)
           \/ k < Len(s) /\ k < Len(t) /\ s[k + 1] < t[k + 1]

\* C18: a < b is the lexicographic order of the elements at [0, size), and
\* a > b iff b < a, a <= b iff (a < b or a == b), a >= b iff (a > b or
\* a == b).
OrderIsLexicographic ==
    \A i, j \in Insts :
        (lastOp.inst = i /\ lastOp.other = j) =>
            LET a == vec[i]
                b == vec[j]
            IN /\ lastOp.op = "<" =>
                     lastOp.val = SeqLess(Contents(heap, a), Contents(heap, b))
               /\ lastOp.op = ">" =>
                     /\ lastOp.val = OpLess(heap, b, a)
                     /\ lastOp.val = SeqLess(Contents(heap, b), Contents(heap, a))
               /\ lastOp.op = "<=" =>
                     lastOp.val = (OpLess(heap, a, b) \/ OpEqual(heap, a, b))
               /\ lastOp.op = ">=" =>
                     lastOp.val = (OpGreater(heap, a, b) \/ OpEqual(heap, a, b))

\* A vector has compared less than a longer one that starts with its
\* elements.
OrderWitness ==
    /\ lastOp.op = "<" /\ lastOp.val = TRUE
    /\ Contents(heap, vec[lastOp.inst]) = <<1>>
    /\ Contents(heap, vec[lastOp.other]) = <<1, 0>>

\* C19: every constructed vector holds no block exactly when capacity_ = 0,
\* and otherwise holds an allocated block of exactly capacity_ slots.
BufferSizedToCapacity ==
    \A i \in Insts :
        vec[i].alive =>
            /\ vec[i].items_ = NULL <=> vec[i].capacity_ = 0
            /\ vec[i].items_ # NULL =>
                  /\ heap.block[vec[i].items_].live
                  /\ Len(heap.block[vec[i].items_].cells) = vec[i].capacity_

\* The part of C19 that holds: a vector with capacity_ > 0 holds an
\* allocated block of exactly capacity_ slots, and any block a vector holds
\* is allocated.
BufferHoldsCapacity ==
    \A i \in Insts :
        vec[i].alive =>
            /\ vec[i].capacity_ > 0 =>
                  /\ vec[i].items_ # NULL
                  /\ Len(heap.block[vec[i].items_].cells) = vec[i].capacity_
            /\ vec[i].items_ # NULL => heap.block[vec[i].items_].live

\* C20 as stated: a call on a vector that leaves its capacity_ as it was
\* leaves it holding the same block, so begin() is unchanged.
BufferKeptWhileCapacityUnchanged ==
    [][\A i \in Insts :
          (lastOp'.inst = i /\ vec[i].alive /\ vec'[i].alive
               /\ vec'[i].capacity_ = vec[i].capacity_) =>
              vec'[i].items_ = vec[i].items_]_vars

\* C20, amended: PushBack, Insert and Resize within the capacity, PopBack,
\* Clear, Erase, a Reserve of no more than the capacity, the accessors, a
\* copy assignment from an empty vector, and an assignment or swap of a
\* vector with itself leave the vector holding the same block, still
\* allocated, so begin() is unchanged.
BufferKeptByMutators ==
    [][\A i \in Insts :
          (/\ lastOp'.inst = i /\ vec[i].alive /\ vec'[i].alive
           /\ vec'[i].capacity_ = vec[i].capacity_
           /\ \/ lastOp'.op \in {"PushBackCopy", "PushBackMove", "InsertCopy",
                                  "InsertMove", "Resize", "PopBack", "Clear",
                                  "Erase", "Reserve", "Index", "IndexConst", "At"}
              \/ /\ lastOp'.op = "CopyAssign"
                 /\ (lastOp'.other = i \/ vec[lastOp'.other].size_ = 0)
              \/ lastOp'.op \in {"MoveAssign", "swap"} /\ lastOp'.other = i) =>
              /\ vec'[i].items_ = vec[i].items_
              /\ vec[i].items_ # NULL => heap'.block[vec[i].items_].live]_vars

\* A Resize from one element to three within a capacity of four.
BufferKeptWitness ==
    /\ lastOp.op = "Resize" /\ ~lastOp.grew
    /\ vec[lastOp.inst].size_ = 3 /\ vec[lastOp.inst].capacity_ = 4
    /\ Contents(heap, vec[lastOp.inst]) = <<1, 0, 0>>

====
